---- MODULE Spec2Model ----
(***************************************************************************)
(* snakeql: SQL-like queries over in-memory Python objects.                *)
(*                                                                         *)
(* The model covers the field algebra (core.py, class Field and its        *)
(* subclasses), the query builder (SELECT and the SelectQuery methods),    *)
(* the statement reduction of the parser (parser.py, p_statement and the   *)
(* fexprplus productions), the generator pipeline built by                 *)
(* SelectQuery.__call__ and the SelectResult object that consumes it.      *)
(*                                                                         *)
(* Python values are modelled as follows.  int and bool are integers       *)
(* (bool is a subclass of int: True == 1, False == 0).  An input object    *)
(* is a function from attribute names to integers and answers both         *)
(* getattr and [] (a namedtuple-like record).  A tuple is a sequence.      *)
(* None is a record of its own, so that it compares unequal to every field *)
(* and every wrapped tuple.                                                *)
(***************************************************************************)
EXTENDS Integers, Sequences, FiniteSets, TLC

VARIABLES
    input,      \* the list of objects the query was last called on
    query,      \* the SelectQuery the builder holds, or None
    result,     \* the SelectResult of the last call (its generator's frame), or None
    out,        \* the rows the result's generator has yielded so far, in order
    ret,        \* what the last operation returned, if it was list() or one()
    err,        \* the exception the last operation raised, or "none"
    call,       \* the last call of SELECT, of snakeql.query, of a builder method
                \* or of the query itself, with its arguments
    F, G,       \* two fields under construction (the field algebra on its own)
    queries,    \* the SelectQuery objects a program holds on to, in the order they
                \* were constructed (query reuse)
    results     \* the SelectResult objects it holds on to, each with the rows it
                \* has delivered (query reuse)

vars == <<input, query, result, out, ret, err, call, F, G, queries, results>>

-----------------------------------------------------------------------------
(* Bounds *)

\* longest input list
MaxLen == 3
\* deepest nesting of AS(...) around a field
MaxAlias == 2

-----------------------------------------------------------------------------
(* The field algebra: one constructor per Field subclass *)

None == [t |-> "NoneType"]

IdentityField == [t |-> "IdentityField"]
AttrField(attr) == [t |-> "AttrField", attr |-> attr]
KeyField(key) == [t |-> "KeyField", key |-> key]
ConstantField(value) == [t |-> "ConstantField", value |-> value]
ListField(fields) == [t |-> "ListField", fields |-> fields]
AliasField(field, name) == [t |-> "AliasField", field |-> field, name |-> name]
FunctionField(func, args, name) ==
    [t |-> "FunctionField", func |-> func, args |-> args, name |-> name]
OperatorField(func, args, name) ==
    [t |-> "OperatorField", func |-> func, args |-> args, name |-> name]
AggregateFunctionField(func, args, name) ==
    [t |-> "AggregateFunctionField", func |-> func, args |-> args, name |-> name]

\* the three classes that share FunctionField's methods
IsFunctionField(f) == f.t \in {"FunctionField", "OperatorField", "AggregateFunctionField"}

\* all(P(s[i]) for i): a fold the recursive operators below are written with
RECURSIVE AllTrue(_)
AllTrue(bs) == IF bs = <<>> THEN TRUE ELSE Head(bs) /\ AllTrue(Tail(bs))

RECURSIVE _is_mapper(_)
_is_mapper(f) ==
    CASE f.t = "ListField" -> AllTrue([i \in 1..Len(f.fields) |-> _is_mapper(f.fields[i])])
      [] f.t \in {"KeyField", "AttrField", "IdentityField", "ConstantField"} -> TRUE
      [] f.t = "AliasField" -> _is_mapper(f.field)
      [] f.t \in {"FunctionField", "OperatorField"} ->
            AllTrue([i \in 1..Len(f.args) |-> _is_mapper(f.args[i])])
      [] f.t = "AggregateFunctionField" -> FALSE

RECURSIVE _is_aggregator(_)
_is_aggregator(f) ==
    CASE f.t = "ListField" -> AllTrue([i \in 1..Len(f.fields) |-> _is_aggregator(f.fields[i])])
      [] f.t \in {"KeyField", "AttrField", "IdentityField"} -> FALSE
      [] f.t = "ConstantField" -> TRUE
      [] f.t = "AliasField" -> _is_aggregator(f.field)
      [] f.t \in {"FunctionField", "OperatorField"} ->
            AllTrue([i \in 1..Len(f.args) |-> _is_aggregator(f.args[i])])
      [] f.t = "AggregateFunctionField" -> TRUE

\* _equals without "if isinstance(other, AliasField): return other._equals(self)"
RECURSIVE _equals_alias_on_left_only(_, _)
_equals_alias_on_left_only(self, other) ==
    IF self.t = "AliasField" THEN _equals_alias_on_left_only(self.field, other)
    ELSE IF self.t # other.t THEN FALSE
    ELSE CASE self.t = "ListField" ->
                /\ Len(self.fields) = Len(other.fields)
                /\ AllTrue([i \in 1..Len(self.fields) |->
                                _equals_alias_on_left_only(self.fields[i], other.fields[i])])
           [] self.t = "KeyField" -> self.key = other.key
           [] self.t = "AttrField" -> self.attr = other.attr
           [] self.t = "IdentityField" -> TRUE
           [] self.t = "ConstantField" -> self.value = other.value
           [] IsFunctionField(self) ->
                /\ self.func = other.func
                /\ Len(self.args) = Len(other.args)
                /\ AllTrue([i \in 1..Len(self.args) |->
                                _equals_alias_on_left_only(self.args[i], other.args[i])])

\* Field._equals.  Every class but AliasField first hands an AliasField
\* argument the comparison (other._equals(self)); AliasField forwards to the
\* field it wraps.
RECURSIVE _equals(_, _)
_equals(self, other) ==
    IF self.t = "AliasField" THEN _equals(self.field, other)
    ELSE IF other.t = "AliasField" THEN _equals(other, self)
    ELSE IF self.t # other.t THEN FALSE
    ELSE CASE self.t = "ListField" ->
                /\ Len(self.fields) = Len(other.fields)
                /\ AllTrue([i \in 1..Len(self.fields) |->
                                _equals(self.fields[i], other.fields[i])])
           [] self.t = "KeyField" -> self.key = other.key
           [] self.t = "AttrField" -> self.attr = other.attr
           [] self.t = "IdentityField" -> TRUE
           [] self.t = "ConstantField" -> self.value = other.value
           [] IsFunctionField(self) ->
                /\ self.func = other.func
                /\ Len(self.args) = Len(other.args)
                /\ AllTrue([i \in 1..Len(self.args) |->
                                _equals(self.args[i], other.args[i])])

\* field_index: the position of the first candidate the needle _equals.  The
\* code counts from 0 and answers None when there is none; the model's tuples
\* start at 1 and 0 stands for None.
RECURSIVE field_index_from(_, _, _)
field_index_from(needle_field, haystack_fields, i) ==
    IF i > Len(haystack_fields) THEN 0
    ELSE IF _equals(needle_field, haystack_fields[i]) THEN i
    ELSE field_index_from(needle_field, haystack_fields, i + 1)

field_index(needle_field, haystack_fields) ==
    field_index_from(needle_field, haystack_fields, 1)

\* ", ".join(strs)
RECURSIVE Join(_, _)
Join(sep, strs) ==
    IF strs = <<>> THEN ""
    ELSE IF Len(strs) = 1 THEN strs[1]
    ELSE strs[1] \o sep \o Join(sep, Tail(strs))

\* Field.__str__ and fields_to_str
RECURSIVE str(_)
fields_to_str(fields) ==
    IF Len(fields) = 0 THEN "()"
    ELSE IF Len(fields) = 1 THEN str(fields[1]) \o ","
    ELSE Join(", ", [i \in 1..Len(fields) |-> str(fields[i])])

str(f) ==
    CASE f.t = "ListField" -> Join(", ", [i \in 1..Len(f.fields) |-> str(f.fields[i])])
      [] f.t = "KeyField" -> "o['" \o f.key \o "']"
      [] f.t = "AttrField" -> "o." \o f.attr
      [] f.t = "IdentityField" -> "o"
      [] f.t = "AliasField" -> str(f.field) \o " AS " \o f.name
      [] f.t = "ConstantField" -> ToString(f.value)
      [] f.t \in {"FunctionField", "AggregateFunctionField"} ->
            f.name \o "(" \o Join(", ", [i \in 1..Len(f.args) |-> str(f.args[i])]) \o ")"
      [] f.t = "OperatorField" ->
            IF Len(f.args) = 2
            THEN "(" \o str(f.args[1]) \o " " \o f.name \o " " \o str(f.args[2]) \o ")"
            ELSE f.name \o " " \o str(f.args[1])

\* Field._name: the keyword the value is passed under to the RETURNING type
RECURSIVE _name(_)
_name(f) ==
    CASE f.t = "ListField" -> Join(",", [i \in 1..Len(f.fields) |-> _name(f.fields[i])])
      [] f.t = "KeyField" -> f.key
      [] f.t = "AttrField" -> f.attr
      [] f.t = "IdentityField" -> "o"
      [] f.t = "AliasField" -> f.name
      [] f.t = "ConstantField" -> ToString(f.value)
      [] IsFunctionField(f) -> str(f)

-----------------------------------------------------------------------------
(* Evaluation: Field.__call__ *)

\* The module-level instance o = IdentityField() as a value.  It is an object
\* without __bool__ or __len__, hence truthy, and equal to no integer the
\* model's data holds (those are all >= 0).
o_object == -1

\* bool(v)
Truthy(v) == v # 0

RECURSIVE sum(_)
sum(xs) == IF xs = <<>> THEN 0 ELSE Head(xs) + sum(Tail(xs))

and_(x, y) == IF Truthy(x) THEN y ELSE x

\* "return o or y": the name o is the module-level IdentityField, not the
\* parameter x
or_(x, y) == IF Truthy(o_object) THEN o_object ELSE y

not_(x) == IF Truthy(x) THEN 0 ELSE 1

\* func(*args) for the callables the model's fields hold
Apply(func, args) ==
    CASE func = "operator.add" -> args[1] + args[2]
      [] func = "operator.eq" -> IF args[1] = args[2] THEN 1 ELSE 0
      \* the data are small integers, which CPython keeps one object each
      [] func = "operator.is_" -> IF args[1] = args[2] THEN 1 ELSE 0
      [] func = "and_" -> and_(args[1], args[2])
      [] func = "or_" -> or_(args[1], args[2])
      [] func = "not_" -> not_(args[1])
      [] func = "sum" -> sum(args[1])
      [] func = "len" -> Len(args[1])
      [] func = "tuple" -> args[1]

\* f(obj).  obj is one object, or for an aggregate (and for what
\* _make_group_by_field calls) the list of the objects of a group.
RECURSIVE Call(_, _)
Call(f, obj) ==
    CASE f.t = "ListField" -> [i \in 1..Len(f.fields) |-> Call(f.fields[i], obj)]
      [] f.t = "KeyField" -> obj[f.key]
      [] f.t = "AttrField" -> obj[f.attr]
      [] f.t = "IdentityField" -> obj
      [] f.t = "AliasField" -> Call(f.field, obj)
      [] f.t = "ConstantField" -> f.value
      [] f.t \in {"FunctionField", "OperatorField"} ->
            Apply(f.func, [i \in 1..Len(f.args) |-> Call(f.args[i], obj)])
      [] f.t = "AggregateFunctionField" ->
            Apply(f.func, [i \in 1..Len(f.args) |->
                              [j \in 1..Len(obj) |-> Call(f.args[i], obj[j])]])

-----------------------------------------------------------------------------
(* The query and its builder *)

\* a Python list or tuple handed over as one value
PyTuple(xs) == [tuple |-> xs]

\* isinstance(v, (list, tuple))
IsSequence(v) == "tuple" \in DOMAIN v

\* isinstance(v, Field)
IsField(v) == "t" \in DOMAIN v /\ v.t # "NoneType"

to_field(field_or_value) ==
    IF IsField(field_or_value) THEN field_or_value ELSE ConstantField(field_or_value)

to_fields(fields_or_values) ==
    [i \in 1..Len(fields_or_values) |-> to_field(fields_or_values[i])]

\* a raised exception, as the outcome of an operation
Raise(e) == [raised |-> e]
Raised(v) == "raised" \in DOMAIN v

InvalidWhere == "AssertionError: cannot use an aggregate function in WHERE"
InvalidGroupBy == "AssertionError: cannot use an aggregate function in GROUP BY"
UngroupedProjection == "ValueError: is neither in GROUP BY or an aggregate function"
AggregateWithoutGroup == "ValueError: cannot use aggregate function without GROUP BY"
EmptyResult == "ValueError: no items in in result"
AmbiguousResult == "ValueError: more than one item in result"
StopIteration == "StopIteration"

\* SelectQuery.__init__ with its defaults
SelectQuery(fields, flatten) ==
    [fields |-> fields, flatten |-> flatten, distinct |-> FALSE, where |-> None,
     group_by |-> None, return_type |-> None]

\* SelectQuery._replace.  kw holds the keyword arguments the caller gives; an
\* argument left out defaults to None, and "x if x is None" keeps the
\* receiver's value for those.
_replace(self, kw) ==
    [fields |-> self.fields,
     flatten |-> IF "flatten" \in DOMAIN kw THEN kw.flatten ELSE self.flatten,
     distinct |-> IF "distinct" \in DOMAIN kw THEN kw.distinct ELSE self.distinct,
     where |-> IF "where" \in DOMAIN kw /\ kw.where # None
               THEN kw.where ELSE self.where,
     group_by |-> IF "group_by" \in DOMAIN kw /\ kw.group_by # None
                  THEN kw.group_by ELSE self.group_by,
     return_type |-> IF "return_type" \in DOMAIN kw /\ kw.return_type # None
                     THEN kw.return_type ELSE self.return_type]

\* SELECT flattening whenever there is one field, a one-element list included
SELECT_flattens_one_field(fields) ==
    IF Len(fields) = 0 THEN SelectQuery(<<IdentityField>>, TRUE)
    ELSE IF Len(fields) = 1
         THEN IF IsSequence(fields[1])
              THEN SelectQuery(to_fields(fields[1].tuple), Len(fields[1].tuple) = 1)
              ELSE SelectQuery(<<to_field(fields[1])>>, TRUE)
         ELSE SelectQuery(to_fields(fields), FALSE)

\* SELECT(*fields)
SELECT(fields) ==
    IF Len(fields) = 0 THEN SelectQuery(<<IdentityField>>, TRUE)
    ELSE IF Len(fields) = 1
         THEN IF IsSequence(fields[1])
              THEN SelectQuery(to_fields(fields[1].tuple), FALSE)
              ELSE SelectQuery(<<to_field(fields[1])>>, TRUE)
         ELSE SelectQuery(to_fields(fields), FALSE)

DISTINCT(self) == _replace(self, [distinct |-> TRUE])

\* WHERE that adds the condition to the one the query has
WHERE_narrows(self, where) ==
    IF ~_is_mapper(where) THEN Raise(InvalidWhere)
    ELSE IF self.where = None THEN _replace(self, [where |-> to_field(where)])
    ELSE _replace(self, [where |-> OperatorField("and_", <<self.where, to_field(where)>>,
                                                 "AND")])

WHERE(self, where) ==
    IF ~_is_mapper(where) THEN Raise(InvalidWhere)
    ELSE _replace(self, [where |-> to_field(where)])

\* GROUP_BY without its loop over self.fields
GROUP_BY_rejects_nothing(self, fields) == FALSE

\* the loop of GROUP_BY over self.fields: TRUE when it raises
GROUP_BY_rejects(self, fields) ==
    \E i \in 1..Len(self.fields) :
        /\ field_index(self.fields[i], fields) = 0
        /\ ~_is_aggregator(self.fields[i])

\* GROUP_BY(*fields)
GROUP_BY(self, fields) ==
    LET fs == to_fields(fields) IN
    IF ~AllTrue([i \in 1..Len(fs) |-> _is_mapper(fs[i])]) THEN Raise(InvalidGroupBy)
    ELSE IF GROUP_BY_rejects(self, fs) THEN Raise(UngroupedProjection)
    ELSE _replace(self, [group_by |-> PyTuple(fs)])

RETURNING(self, return_type) ==
    _replace(self, [flatten |-> FALSE, return_type |-> return_type])

-----------------------------------------------------------------------------
(* The stages of the pipeline SelectQuery.__call__ builds *)

\* _where without its filter
_where_passes_all(self, r) == TRUE

\* what filter(self.where, res) lets through
_where(self, r) == self.where = None \/ Truthy(Call(self.where, r))

\* next() of the filter over iter(objects), pos objects of which are consumed
RECURSIVE _where_next(_, _, _)
_where_next(self, objects, pos) ==
    IF pos >= Len(objects) THEN [stop |-> TRUE, pos |-> pos]
    ELSE IF _where(self, objects[pos + 1])
         THEN [stop |-> FALSE, value |-> objects[pos + 1], pos |-> pos + 1]
         ELSE _where_next(self, objects, pos + 1)

\* list(res) of the filter over what is left of iter(objects)
RECURSIVE list_where(_, _, _)
list_where(self, objects, pos) ==
    LET w == _where_next(self, objects, pos) IN
    IF w.stop THEN <<>> ELSE <<w.value>> \o list_where(self, objects, w.pos)

\* the body of the loop of _select: tuple(f(r) for f in fields)
_select(fields, r) == [i \in 1..Len(fields) |-> Call(fields[i], r)]

KeyValuePair(key, value) == [key |-> key, value |-> value]

\* a < b for two tuples of integers of one length
RECURSIVE tuple_lt(_, _)
tuple_lt(a, b) ==
    IF a = <<>> \/ b = <<>> THEN a = <<>> /\ b # <<>>
    ELSE IF Head(a) = Head(b) THEN tuple_lt(Tail(a), Tail(b))
    ELSE Head(a) < Head(b)

\* a sort that is not stable: the next pair goes before the pairs of its key
RECURSIVE insort_before_equal(_, _)
insort_before_equal(pair, pairs) ==
    IF pairs = <<>> THEN <<pair>>
    ELSE IF ~tuple_lt(Head(pairs).key, pair.key) THEN <<pair>> \o pairs
    ELSE <<Head(pairs)>> \o insort_before_equal(pair, Tail(pairs))

\* where sorted puts the next pair: behind every pair whose key is not greater
RECURSIVE insort(_, _)
insort(pair, pairs) ==
    IF pairs = <<>> THEN <<pair>>
    ELSE IF tuple_lt(pair.key, Head(pairs).key) THEN <<pair>> \o pairs
    ELSE <<Head(pairs)>> \o insort(pair, Tail(pairs))

\* sorted(pairs, key=KeyValuePair.key): a stable sort
RECURSIVE sorted(_)
sorted(pairs) ==
    IF pairs = <<>> THEN <<>>
    ELSE insort(pairs[Len(pairs)], sorted(SubSeq(pairs, 1, Len(pairs) - 1)))

\* the length of the run of pairs that share the key of the first
RECURSIVE run_length(_, _)
run_length(pairs, k) ==
    IF pairs = <<>> \/ Head(pairs).key # k THEN 0
    ELSE 1 + run_length(Tail(pairs), k)

\* itertools.groupby(pairs, key=KeyValuePair.key) with the pair _group yields
\* for each run
RECURSIVE groupby(_)
groupby(pairs) ==
    IF pairs = <<>> THEN <<>>
    ELSE LET k == Head(pairs).key
             m == run_length(pairs, k)
         IN <<KeyValuePair(k, [i \in 1..m |-> pairs[i].value])>>
                \o groupby(SubSeq(pairs, m + 1, Len(pairs)))

\* _group yielding one group, without records, when there is no record
_group_never_empty(self, res) ==
    IF res = <<>>
    THEN <<KeyValuePair([i \in 1..Len(self.group_by.tuple) |-> 0], <<>>)>>
    ELSE groupby(sorted([i \in 1..Len(res) |->
                            KeyValuePair(_select(self.group_by.tuple, res[i]), res[i])]))

\* _group(res), res being the list list(res) made
_group(self, res) ==
    LET keys == [i \in 1..Len(res) |-> _select(self.group_by.tuple, res[i])]
        pairs == [i \in 1..Len(res) |-> KeyValuePair(keys[i], res[i])]
    IN groupby(sorted(pairs))

\* _make_group_by_field taking the first component of the key whatever the
\* index is
_make_group_by_field_first_key(self, select_field, pair) ==
    IF field_index(select_field, self.group_by.tuple) # 0
    THEN pair.key[1] ELSE Call(select_field, pair.value)

\* the function _make_group_by_field returns, applied to a pair
_make_group_by_field(self, select_field, pair) ==
    LET idx == field_index(select_field, self.group_by.tuple) IN
    IF idx # 0 THEN pair.key[idx] ELSE Call(select_field, pair.value)

\* the row _select(group_by_fields, ...) makes of a pair
group_by_fields(self, pair) ==
    [i \in 1..Len(self.fields) |-> _make_group_by_field(self, self.fields[i], pair)]

\* _flatten: a row is a tuple, or flattened its sole element
_flatten(self, r) == IF self.flatten THEN [value |-> r[1]] ELSE [tuple |-> r]

\* a dict that keeps the first entry of a name
dict_zip_first_wins(names, r) ==
    LET m == IF Len(names) < Len(r) THEN Len(names) ELSE Len(r)
        first(k) == CHOOSE i \in 1..m :
                      /\ names[i] = k
                      /\ \A j \in 1..m : names[j] = k => j >= i
    IN [k \in {names[i] : i \in 1..m} |-> r[first(k)]]

\* dict(zip(names, r)): a later entry of the same name replaces an earlier one
dict_zip(names, r) ==
    LET m == IF Len(names) < Len(r) THEN Len(names) ELSE Len(r)
        last(k) == CHOOSE i \in 1..m :
                      /\ names[i] = k
                      /\ \A j \in 1..m : names[j] = k => j <= i
    IN [k \in {names[i] : i \in 1..m} |-> r[last(k)]]

\* the body of the loop of _returning: self.return_type(**dict(zip(names, r)))
_returning(self, r) ==
    IF self.return_type # None
    THEN LET names == [i \in 1..Len(self.fields) |-> _name(self.fields[i])]
         IN [type |-> self.return_type.name, kw |-> dict_zip(names, r.tuple)]
    ELSE r

-----------------------------------------------------------------------------
(* The result: the frame of the generator chain a SelectResult wraps *)

\* SelectResult(res, self) right after __call__: nothing consumed of
\* iter(objects), _group has not run, _distinct has seen nothing
SelectResult(self) ==
    [query |-> self, pos |-> 0, groups |-> None, gpos |-> 0, seen |-> {}]

\* __call__ with the check of the projection left to the first record
__call___checks_on_first_record(self, objects) ==
    IF /\ self.group_by = None
       /\ \E i \in 1..Len(self.fields) : ~_is_mapper(self.fields[i])
       /\ objects # <<>>
    THEN Raise(AggregateWithoutGroup)
    ELSE SelectResult(self)

\* __call__ up to the return: the check of the projection when there is no
\* GROUP BY happens here, before any generator runs
__call__(self, objects) ==
    IF self.group_by = None /\ \E i \in 1..Len(self.fields) : ~_is_mapper(self.fields[i])
    THEN Raise(AggregateWithoutGroup)
    ELSE SelectResult(self)

\* next() of _select(self.fields, res) without GROUP BY: w is what the filter
\* over iter(objects) answered
_select_fields_next(fr, w) ==
    IF w.stop THEN [stop |-> TRUE, frame |-> [fr EXCEPT !.pos = w.pos]]
    ELSE [stop |-> FALSE, value |-> _select(fr.query.fields, w.value),
          frame |-> [fr EXCEPT !.pos = w.pos]]

\* next() of _select(group_by_fields, self._group(res)): groups is what _group
\* yields, in order
_select_groups_next(fr, groups) ==
    IF fr.gpos >= Len(groups) THEN [stop |-> TRUE, frame |-> fr]
    ELSE [stop |-> FALSE,
          value |-> group_by_fields(fr.query, groups[fr.gpos + 1]),
          frame |-> [fr EXCEPT !.gpos = @ + 1]]

\* the first next() of _group runs it up to its first yield: list(res) takes
\* all that is left of iter(objects), and the pairs are sorted
_group_start(fr, objects) ==
    IF fr.groups # None THEN fr
    ELSE [fr EXCEPT !.groups = PyTuple(_group(fr.query,
                                              list_where(fr.query, objects, fr.pos))),
                    !.pos = Len(objects)]

\* next() of the generator __call__ made with _select
_select_next(fr, objects) ==
    IF fr.query.group_by = None
    THEN _select_fields_next(fr, _where_next(fr.query, objects, fr.pos))
    ELSE _select_groups_next(_group_start(fr, objects),
                             _group_start(fr, objects).groups.tuple)

\* _flatten applied to what _select yields
_flatten_row(self, u) ==
    IF u.stop THEN u
    ELSE [stop |-> FALSE, value |-> _flatten(self, u.value), frame |-> u.frame]

\* next() of _flatten(...)
_flatten_next(fr, objects) == _flatten_row(fr.query, _select_next(fr, objects))

\* _distinct with "yield from res" in both branches
_distinct_row_yields_all(self, u, objects) == u

\* next() of _distinct(...): rows already in seen are passed over
RECURSIVE _distinct_next(_, _)
_distinct_row(self, u, objects) ==
    IF u.stop \/ ~self.distinct THEN u
    ELSE IF u.value \in u.frame.seen THEN _distinct_next(u.frame, objects)
    ELSE [stop |-> FALSE, value |-> u.value,
          frame |-> [u.frame EXCEPT !.seen = @ \cup {u.value}]]

_distinct_next(fr, objects) == _distinct_row(fr.query, _flatten_next(fr, objects), objects)

\* _returning applied to what _distinct yields
_returning_row(self, u) ==
    IF u.stop THEN u
    ELSE [stop |-> FALSE, value |-> _returning(self, u.value), frame |-> u.frame]

\* next(self._res): next() of _returning(...)
_returning_next(fr, objects) == _returning_row(fr.query, _distinct_next(fr, objects))

\* list(self): every row left, and the frame the generator ends in
RECURSIVE list(_, _)
list_cons(u, rest) == [rows |-> <<u.value>> \o rest.rows, frame |-> rest.frame]

list_from(u, objects) ==
    IF u.stop THEN [rows |-> <<>>, frame |-> u.frame]
    ELSE list_cons(u, list(u.frame, objects))

\* list(self) over a result that starts again from its first row each time
list_rewinds(fr, objects) ==
    [rows |-> list_from(_returning_next(fr, objects), objects).rows, frame |-> fr]

list(fr, objects) == list_from(_returning_next(fr, objects), objects)

\* one() without its second next(self._res)
one_second_never_ambiguous(first, second) ==
    [rows |-> <<first.value>>, frame |-> first.frame, outcome |-> [one |-> first.value]]

\* SelectResult.one after both next(self._res): the rows it took, the frame
\* after, and what it returns or raises
one_second(first, second) ==
    IF second.stop
    THEN [rows |-> <<first.value>>, frame |-> second.frame,
          outcome |-> [one |-> first.value]]
    ELSE [rows |-> <<first.value, second.value>>, frame |-> second.frame,
          outcome |-> Raise(AmbiguousResult)]

one_first(first, objects) ==
    IF first.stop
    THEN [rows |-> <<>>, frame |-> first.frame, outcome |-> Raise(EmptyResult)]
    ELSE one_second(first, _returning_next(first.frame, objects))

\* SelectResult.one
one(fr, objects) == one_first(_returning_next(fr, objects), objects)

-----------------------------------------------------------------------------
(* The statement reduction of the parser *)

\* fexprplus: one fexpr without a comma is the field itself (p_fexprplus_2);
\* "fexpr ," and every longer list, with or without a trailing comma, is a
\* list (p_fexprs_1, p_fexprs_2, p_fexprs_3)
fexprplus(text) ==
    IF Len(text.items) = 1 /\ ~text.comma THEN text.items[1] ELSE PyTuple(text.items)

\* p_groupby_1: a lone field becomes a one-element list
p_groupby_1(text) ==
    LET p3 == fexprplus(text) IN
    IF IsSequence(p3) THEN p3.tuple ELSE <<p3>>

\* field_op(operator, op_str): the method it makes, called
field_op(operator, op_str, self, other) ==
    OperatorField(operator, <<self, to_field(other)>>, op_str)

\* p_predfactor_2: "predfactor COMPARE arithexpr".  Every branch but the last
\* assigns p[0]; the MATCHES branch compares p[0] with the node it builds
\* and throws the result away, so p[0] keeps the None it starts with.
p_predfactor_2(left, op, right) ==
    CASE op = "==" -> field_op("operator.eq", "==", left, right)
      [] op = "IS" -> field_op("operator.is_", "IS", left, right)
      [] op = "CONTAINS" -> field_op("operator.contains", "CONTAINS", left, right)
      [] op = "LIKE" -> field_op("fnmatch.fnmatch", "LIKE", left, right)
      [] op = "MATCHES" -> None

\* where: "WHERE fexpr" is the fexpr (p_where_1), no clause is None (p_where_2)
p_where(text) ==
    IF text = None THEN None ELSE p_predfactor_2(text.left, text.op, text.right)

\* p_statement: SELECT(fexprplus), then DISTINCT, WHERE, GROUP_BY and RETURNING
\* for the clauses whose reduction is not None; the first exception ends the
\* parse
p_statement(text) ==
    LET s1 == SELECT(<<fexprplus(text.select)>>)
        s2 == IF text.distinct THEN DISTINCT(s1) ELSE s1
        s3 == IF p_where(text.where) # None THEN WHERE(s2, p_where(text.where)) ELSE s2
        s4 == IF Raised(s3) \/ text.groupby = None THEN s3
              ELSE GROUP_BY(s3, p_groupby_1(text.groupby))
        s5 == IF Raised(s4) \/ text.returning = None THEN s4
              ELSE RETURNING(s4, text.returning)
    IN s5

-----------------------------------------------------------------------------
(* The objects, fields and arguments the operations are given *)

Objects == {[x |-> 0, y |-> 0], [x |-> 0, y |-> 1], [x |-> 1, y |-> 1]}

Inputs == UNION {[1..k -> Objects] : k \in 0..MaxLen}

o_x == AttrField("x")
o_y == AttrField("y")
sum_y == AggregateFunctionField("sum", <<o_y>>, "sum")
tuple_y == AggregateFunctionField("tuple", <<o_y>>, "tuple")
x_eq_y == OperatorField("operator.eq", <<o_x, o_y>>, "==")
x_or_y == OperatorField("or_", <<o_x, o_y>>, "OR")
\* add(sum(o.y), o.x): neither scalar nor aggregate
add_sum_x == FunctionField("operator.add", <<sum_y, o_x>>, "add")
\* add(sum(o.y), 1): an aggregate made of aggregates
add_sum_1 == FunctionField("operator.add", <<sum_y, ConstantField(1)>>, "add")

\* what SELECT is given when it is given one field
SingleFields == {o_x, sum_y, add_sum_x}

\* what SELECT is given as a list, or spread as several arguments
FieldLists ==
    { <<KeyField("x")>>,
      <<o_x, o_y>>,
      <<AliasField(o_x, "a"), AliasField(o_y, "a")>>,
      <<AliasField(o_x, "k"), AliasField(add_sum_1, "total")>>,
      <<o_x, tuple_y>> }

SelectArgs ==
    {<<>>} \cup {<<f>> : f \in SingleFields}
           \cup {<<PyTuple(fs)>> : fs \in FieldLists}
           \cup {fs \in FieldLists : Len(fs) >= 2}

WhereArgs == {x_eq_y, x_or_y, sum_y}

GroupByArgs == {<<>>, <<o_x>>, <<o_y, o_x>>, <<sum_y>>, <<ConstantField(1)>>}

dict == [t |-> "type", name |-> "dict"]

ReturnTypes == {dict}

\* the texts snakeql.query is given, clause by clause: "o", "o.x", "o.x,",
\* "o.x, o.y", "o.x, o.y," and "sum(o.y)" after SELECT
SelectTexts ==
    { [items |-> <<IdentityField>>, comma |-> FALSE],
      [items |-> <<o_x>>, comma |-> FALSE],
      [items |-> <<o_x>>, comma |-> TRUE],
      [items |-> <<o_x, o_y>>, comma |-> FALSE],
      [items |-> <<o_x, o_y>>, comma |-> TRUE],
      [items |-> <<sum_y>>, comma |-> FALSE] }

GroupByTexts == {[items |-> <<o_x>>, comma |-> FALSE]}

\* "where o.x == o.y", "where o.x is o.y" and "where o.x matches o.y"
WhereTexts ==
    { [left |-> o_x, op |-> "==", right |-> o_y],
      [left |-> o_x, op |-> "IS", right |-> o_y],
      [left |-> o_x, op |-> "MATCHES", right |-> o_y] }

Statements ==
    [select : SelectTexts, distinct : BOOLEAN, where : {None} \cup WhereTexts,
     groupby : {None} \cup GroupByTexts, returning : {None} \cup ReturnTypes]

-----------------------------------------------------------------------------
(* The operations *)

Init ==
    /\ input = <<>>
    /\ query = None
    /\ result = None
    /\ out = <<>>
    /\ ret = None
    /\ err = "none"
    /\ call = [op |-> "none"]
    /\ F = None /\ G = None
    /\ queries = <<>> /\ results = <<>>

\* The builder ends in a query, or raises and leaves the one held.  The model
\* follows one query: SELECT or snakeql.query starts it, the builder methods
\* derive the next from the one held, and the builder rests once the query
\* has been called.
Built(c, s) ==
    /\ IF Raised(s) THEN err' = s.raised /\ query' = query
                    ELSE err' = "none" /\ query' = s
    /\ call' = c
    /\ UNCHANGED <<input, result, out, ret, F, G, queries, results>>

Select ==
    \E fields \in SelectArgs :
        /\ query = None /\ result = None
        /\ Built([op |-> "SELECT", fields |-> fields], SELECT(fields))

Distinct == query # None /\ result = None /\ Built([op |-> "DISTINCT"], DISTINCT(query))

Where ==
    \E where \in WhereArgs :
        /\ query # None /\ result = None
        /\ Built([op |-> "WHERE", where |-> where, self |-> query], WHERE(query, where))

GroupBy ==
    \E fields \in GroupByArgs :
        /\ query # None /\ result = None
        /\ Built([op |-> "GROUP_BY", by |-> fields, self |-> query],
                 GROUP_BY(query, fields))

Returning ==
    \E return_type \in ReturnTypes :
        /\ query # None /\ result = None
        /\ Built([op |-> "RETURNING", return_type |-> return_type],
                 RETURNING(query, return_type))

\* snakeql.query(text)
Parse ==
    \E text \in Statements :
        /\ query = None /\ result = None
        /\ Built([op |-> "query", text |-> text], p_statement(text))

\* query(objects).  The model follows one call of the query it built: the
\* result of a second call is a generator of its own, in the state the first
\* one started in.
Execute ==
    \E objects \in Inputs :
        /\ query # None
        /\ result = None
        /\ \E r \in {__call__(query, objects)} :
           IF Raised(r)
           THEN err' = r.raised /\ UNCHANGED <<input, result, out, ret>>
           ELSE /\ input' = objects
                /\ result' = r
                /\ out' = <<>>
                /\ ret' = None
                /\ err' = "none"
        /\ call' = [op |-> "__call__", objects |-> objects]
        /\ UNCHANGED <<query, F, G, queries, results>>

\* one step of iterating the result: next(iter(result))
Iterate ==
    /\ result # None
    /\ \E u \in {_returning_next(result, input)} :
       /\ result' = u.frame
       /\ out' = IF u.stop THEN out ELSE Append(out, u.value)
       /\ err' = IF u.stop THEN StopIteration ELSE "none"
    /\ ret' = None
    /\ UNCHANGED <<input, query, call, F, G, queries, results>>

\* result.list()
List ==
    /\ result # None
    /\ \E l \in {list(result, input)} :
       /\ result' = l.frame
       /\ out' = out \o l.rows
       /\ ret' = [list |-> l.rows]
    /\ err' = "none"
    /\ UNCHANGED <<input, query, call, F, G, queries, results>>

\* result.one()
One ==
    /\ result # None
    /\ \E r \in {one(result, input)} :
       /\ result' = r.frame
       /\ out' = out \o r.rows
       /\ IF Raised(r.outcome)
          THEN err' = r.outcome.raised /\ ret' = None
          ELSE err' = "none" /\ ret' = r.outcome
    /\ UNCHANGED <<input, query, call, F, G, queries, results>>

Next ==
    \/ Select
    \/ Distinct
    \/ Where
    \/ GroupBy
    \/ Returning
    \/ Parse
    \/ Execute
    \/ Iterate
    \/ List
    \/ One

Spec == Init /\ [][Next]_vars

-----------------------------------------------------------------------------
(* The field algebra on its own: two fields, wrapped in aliases step by step *)

\* Field.AS
AS(self, name) == AliasField(to_field(self), name)

RECURSIVE alias_depth(_)
alias_depth(f) == IF f.t = "AliasField" THEN 1 + alias_depth(f.field) ELSE 0

AliasNames == {"a", "b"}

BaseFields ==
    { IdentityField, o_x, o_y, KeyField("x"), ConstantField(1), ConstantField(0),
      sum_y, tuple_y, x_eq_y, add_sum_x, add_sum_1,
      AggregateFunctionField("sum", <<o_x>>, "sum"),
      AggregateFunctionField("sum", <<AliasField(o_y, "b")>>, "sum"),
      FunctionField("operator.add", <<o_x, o_y>>, "add"),
      FunctionField("operator.add", <<AliasField(o_x, "a"), o_y>>, "add"),
      OperatorField("operator.add", <<o_x, o_y>>, "+"),
      ListField(<<o_x, o_y>>),
      ListField(<<o_x, AliasField(o_y, "a")>>) }

InitAlias ==
    /\ F \in BaseFields
    /\ G \in BaseFields
    /\ input = <<>> /\ query = None /\ result = None
    /\ out = <<>> /\ ret = None /\ err = "none" /\ call = [op |-> "none"]
    /\ queries = <<>> /\ results = <<>>

\* F = F.AS(name)
AliasF ==
    \E name \in AliasNames :
        /\ alias_depth(F) < MaxAlias
        /\ F' = AS(F, name)
        /\ UNCHANGED <<G, input, query, result, out, ret, err, call, queries, results>>

\* G = G.AS(name)
AliasG ==
    \E name \in AliasNames :
        /\ alias_depth(G) < MaxAlias
        /\ G' = AS(G, name)
        /\ UNCHANGED <<F, input, query, result, out, ret, err, call, queries, results>>

NextAlias == AliasF \/ AliasG

SpecAlias == InitAlias /\ [][NextAlias]_vars

-----------------------------------------------------------------------------
(* The parser on tokens, and the text a query renders to *)

\* A text is the sequence of tokens the lexer makes of it: keywords in upper
\* case, the literal characters, and the ID and INT tokens written as they
\* are in the text.
IDs == {"x", "y", "a", "b"}

SyntaxError == "SyntaxError"

Reject == [ok |-> FALSE]
Accept(node, rest) == [ok |-> TRUE, node |-> node, rest |-> rest]
Next_is(toks, tok) == toks # <<>> /\ Head(toks) = tok

\* Field.IN, Field.__invert__
Field_IN(self, others) == OperatorField("in_", <<self, ListField(to_fields(others))>>, "IN")
__invert__(self) == OperatorField("not_", <<self>>, "NOT")

RECURSIVE p_fexpr(_), p_field(_), p_field_7(_, _), p_arithexpr(_, _)
RECURSIVE p_fexprs2plus(_, _), p_predfactor(_, _), p_prednfactor(_)
RECURSIVE p_predterm(_, _), p_fexpr_or(_, _)

\* field : field AS ID, after a field has been read
p_field_7(field, toks) ==
    IF Len(toks) >= 2 /\ toks[1] = "AS" /\ toks[2] \in IDs
    THEN p_field_7(AliasField(field, toks[2]), SubSeq(toks, 3, Len(toks)))
    ELSE Accept(field, toks)

\* field : '(' fexpr ')', after the fexpr has been read
p_field_6(p2) ==
    IF p2.ok /\ Next_is(p2.rest, ")") THEN p_field_7(p2.node, Tail(p2.rest)) ELSE Reject

\* field : literal | O | O '.' ID | '(' fexpr ')' | field AS ID
p_field(toks) ==
    IF toks = <<>> THEN Reject
    ELSE IF Head(toks) \in {"0", "1"}
    THEN p_field_7(ConstantField(CHOOSE v \in 0..1 : ToString(v) = Head(toks)), Tail(toks))
    ELSE IF Head(toks) = "O"
    THEN IF Len(toks) >= 2 /\ toks[2] = "."
         THEN IF Len(toks) >= 3 /\ toks[3] \in IDs
              THEN p_field_7(AttrField(toks[3]), SubSeq(toks, 4, Len(toks)))
              ELSE Reject
         ELSE p_field_7(IdentityField, Tail(toks))
    ELSE IF Head(toks) = "(" THEN p_field_6(p_fexpr(Tail(toks)))
    ELSE Reject

\* arithexpr : arithexpr '+' term, after the right operand has been read
p_arithexpr_1(left, p3) ==
    IF p3.ok THEN p_arithexpr(field_op("operator.add", "+", left, p3.node), p3.rest)
    ELSE Reject

\* arithexpr, after its first term has been read (term : expnt, expnt : field)
p_arithexpr(left, toks) ==
    IF Next_is(toks, "+") THEN p_arithexpr_1(left, p_field(Tail(toks)))
    ELSE Accept(left, toks)

\* arithexpr : term
p_arithexpr_3(p1) == IF p1.ok THEN p_arithexpr(p1.node, p1.rest) ELSE Reject

\* fexprs2plus : fexprs2plus ',' fexpr, after the comma: an fexpr that cannot
\* be read leaves the comma as the trailing one of p_fexprs_3
p_fexprs2plus_1(items, toks, p3) ==
    IF p3.ok THEN p_fexprs2plus(Append(items, p3.node), p3.rest)
    ELSE [ok |-> TRUE, items |-> items, rest |-> toks]

\* fexprs2plus and the trailing comma of fexprs, after two or more items
p_fexprs2plus(items, toks) ==
    IF Next_is(toks, ",") THEN p_fexprs2plus_1(items, Tail(toks), p_fexpr(Tail(toks)))
    ELSE [ok |-> TRUE, items |-> items, rest |-> toks]

\* fexprs2plus : fexpr ',' fexpr, after the comma: an fexpr that cannot be
\* read leaves "fexpr ','", the one-element list of p_fexprs_1
p_fexprs2plus_2(p1, toks, p3) ==
    IF p3.ok THEN p_fexprs2plus(<<p1.node, p3.node>>, p3.rest)
    ELSE [ok |-> TRUE, items |-> <<p1.node>>, rest |-> toks]

\* fexprs : fexpr ',' | fexprs2plus | fexprs2plus ',', after the first
\* fexpr has been read: there is no list without a comma
p_fexprs_1(p1) ==
    IF p1.ok /\ Next_is(p1.rest, ",")
    THEN p_fexprs2plus_2(p1, Tail(p1.rest), p_fexpr(Tail(p1.rest)))
    ELSE Reject

\* predfactor : predfactor IN fexprs, after the list has been read
p_predfactor_1(left, p3) ==
    IF p3.ok THEN p_predfactor(Field_IN(left, p3.items), p3.rest) ELSE Reject

\* predfactor : predfactor COMPARE arithexpr, after the right operand has
\* been read
p_predfactor_compare(left, op, p3) ==
    IF p3.ok THEN p_predfactor(p_predfactor_2(left, op, p3.node), p3.rest) ELSE Reject

\* predfactor, after its first arithexpr has been read
p_predfactor(left, toks) ==
    IF Next_is(toks, "IN") THEN p_predfactor_1(left, p_fexprs_1(p_fexpr(Tail(toks))))
    ELSE IF Next_is(toks, "==")
    THEN p_predfactor_compare(left, "==", p_arithexpr_3(p_field(Tail(toks))))
    ELSE Accept(left, toks)

\* predfactor : arithexpr
p_predfactor_3(p1) == IF p1.ok THEN p_predfactor(p1.node, p1.rest) ELSE Reject

\* prednfactor : NOT prednfactor, after the operand has been read
p_prednfactor_1(p2) == IF p2.ok THEN Accept(__invert__(p2.node), p2.rest) ELSE Reject

\* prednfactor : NOT prednfactor | predfactor
p_prednfactor(toks) ==
    IF Next_is(toks, "NOT") THEN p_prednfactor_1(p_prednfactor(Tail(toks)))
    ELSE p_predfactor_3(p_arithexpr_3(p_field(toks)))

\* predterm : predterm AND prednfactor, after the right operand has been read
p_predterm_1(left, p3) ==
    IF p3.ok THEN p_predterm(field_op("and_", "AND", left, p3.node), p3.rest) ELSE Reject

\* predterm, after its first prednfactor has been read
p_predterm(left, toks) ==
    IF Next_is(toks, "AND") THEN p_predterm_1(left, p_prednfactor(Tail(toks)))
    ELSE Accept(left, toks)

\* predterm : prednfactor
p_predterm_2(p1) == IF p1.ok THEN p_predterm(p1.node, p1.rest) ELSE Reject

\* fexpr : fexpr OR predterm, after the right operand has been read
p_fexpr_1(left, p3) ==
    IF p3.ok THEN p_fexpr_or(field_op("or_", "OR", left, p3.node), p3.rest) ELSE Reject

\* fexpr, after its first predterm has been read
p_fexpr_or(left, toks) ==
    IF Next_is(toks, "OR") THEN p_fexpr_1(left, p_predterm_2(p_prednfactor(Tail(toks))))
    ELSE Accept(left, toks)

\* fexpr : predterm
p_fexpr_2(p1) == IF p1.ok THEN p_fexpr_or(p1.node, p1.rest) ELSE Reject

\* fexpr : fexpr OR predterm | predterm
p_fexpr(toks) == p_fexpr_2(p_predterm_2(p_prednfactor(toks)))

\* fexprplus : fexprs | fexpr, after the first fexpr has been read: a list
\* where a comma follows it, the field where none does
p_fexprplus_1(p1, p3) ==
    IF ~p1.ok THEN Reject
    ELSE IF Next_is(p1.rest, ",") THEN Accept(PyTuple(p3.items), p3.rest)
    ELSE p1

p_fexprplus(toks) == p_fexprplus_1(p_fexpr(toks), p_fexprs_1(p_fexpr(toks)))

\* statement : select distinct fexprplus where groupby returning, reduced
\* as p_statement reduces it
statement(distinct, p3, where, group_by_, returning) ==
    LET s1 == SELECT(<<p3>>)
        s2 == IF distinct THEN DISTINCT(s1) ELSE s1
        s3 == IF where # None THEN WHERE(s2, where) ELSE s2
        s4 == IF Raised(s3) \/ group_by_ = None THEN s3
              ELSE GROUP_BY(s3, IF IsSequence(group_by_) THEN group_by_.tuple ELSE <<group_by_>>)
        s5 == IF Raised(s4) \/ returning = None THEN s4
              ELSE RETURNING(s4, returning)
    IN s5

\* returning : RETURNING ID | empty, and the end of the text
p_returning(distinct, p3, where, group_by_, toks) ==
    IF toks = <<>> THEN statement(distinct, p3, where, group_by_, None)
    ELSE IF toks = <<"RETURNING", "dict">>
    THEN statement(distinct, p3, where, group_by_, dict)
    ELSE Raise(SyntaxError)

\* groupby : GROUP BY fexprplus, after the fexprplus has been read
p_groupby_on(distinct, p3, where, g) ==
    IF g.ok THEN p_returning(distinct, p3, where, g.node, g.rest)
    ELSE Raise(SyntaxError)

\* groupby : GROUP BY fexprplus | empty
p_groupby(distinct, p3, where, toks) ==
    IF Len(toks) >= 2 /\ toks[1] = "GROUP" /\ toks[2] = "BY"
    THEN p_groupby_on(distinct, p3, where, p_fexprplus(SubSeq(toks, 3, Len(toks))))
    ELSE p_returning(distinct, p3, where, None, toks)

\* where : WHERE fexpr, after the fexpr has been read
p_where_1(distinct, p3, w) ==
    IF w.ok THEN p_groupby(distinct, p3, w.node, w.rest) ELSE Raise(SyntaxError)

\* where : WHERE fexpr | empty
p_where_on(distinct, p3, toks) ==
    IF Next_is(toks, "WHERE") THEN p_where_1(distinct, p3, p_fexpr(Tail(toks)))
    ELSE p_groupby(distinct, p3, None, toks)

\* fexprplus of the statement, after it has been read
p_projection(distinct, p3) ==
    IF p3.ok THEN p_where_on(distinct, p3.node, p3.rest) ELSE Raise(SyntaxError)

\* distinct : DISTINCT | empty
p_distinct(toks) ==
    IF Next_is(toks, "DISTINCT") THEN p_projection(TRUE, p_fexprplus(Tail(toks)))
    ELSE p_projection(FALSE, p_fexprplus(toks))

\* parser.parse(text): the query, or the exception the parse ends in
\* (select : SELECT | empty)
parse(toks) == IF Next_is(toks, "SELECT") THEN p_distinct(Tail(toks)) ELSE p_distinct(toks)

\* ", ".join(texts), in tokens
RECURSIVE join_tokens(_)
join_tokens(texts) ==
    IF texts = <<>> THEN <<>>
    ELSE IF Len(texts) = 1 THEN texts[1]
    ELSE texts[1] \o <<",">> \o join_tokens(Tail(texts))

\* Field.__str__, as the lexer reads the text it returns: a binary operator
\* is written in parentheses, a unary one is not
RECURSIVE tokens(_)
tokens(f) ==
    CASE f.t = "ListField" -> join_tokens([i \in 1..Len(f.fields) |-> tokens(f.fields[i])])
      [] f.t = "AttrField" -> <<"O", ".", f.attr>>
      [] f.t = "IdentityField" -> <<"O">>
      [] f.t = "AliasField" -> tokens(f.field) \o <<"AS", f.name>>
      [] f.t = "ConstantField" -> <<ToString(f.value)>>
      [] f.t = "OperatorField" ->
            IF Len(f.args) = 2
            THEN <<"(">> \o tokens(f.args[1]) \o <<f.name>> \o tokens(f.args[2]) \o <<")">>
            ELSE <<f.name>> \o tokens(f.args[1])

\* fields_to_str of a sequence of fields, as the lexer reads it
fields_to_tokens(fields) ==
    IF Len(fields) = 0 THEN <<"(", ")">>
    ELSE IF Len(fields) = 1 THEN tokens(fields[1]) \o <<",">>
    ELSE join_tokens([i \in 1..Len(fields) |-> tokens(fields[i])])

\* SelectQuery.__str__, as the lexer reads the text it returns
__str__(self) ==
    (IF self.distinct THEN <<"SELECT", "DISTINCT">> ELSE <<"SELECT">>)
    \o (IF self.flatten THEN tokens(self.fields[1]) ELSE fields_to_tokens(self.fields))
    \o (IF self.where # None THEN <<"WHERE">> \o tokens(self.where) ELSE <<>>)
    \o (IF self.group_by # None THEN <<"GROUP", "BY">> \o fields_to_tokens(self.group_by.tuple)
        ELSE <<>>)
    \o (IF self.return_type # None THEN <<"RETURNING", self.return_type.name>> ELSE <<>>)

-----------------------------------------------------------------------------
(* Parsing a text, rendering the query and parsing the rendered text *)

\* the texts parser.parse is given, clause by clause
SelectTokens ==
    { <<"SELECT", "O", ".", "x">>,
      <<"SELECT", "DISTINCT", "O", ".", "x", ",">>,
      <<"O", ".", "x", "AS", "a", ",", "O", ".", "y">>,
      <<"SELECT", "(", "NOT", "O", ".", "x", ")", "+", "1">>,
      <<"SELECT", "(", "O", ".", "x", "+", "1", ")", "AS", "b">> }

WhereTokens ==
    { <<>>,
      <<"WHERE", "O", ".", "x", "==", "0">>,
      <<"WHERE", "NOT", "O", ".", "x", "==", "0">>,
      <<"WHERE", "(", "NOT", "O", ".", "x", ")", "==", "0">>,
      <<"WHERE", "NOT", "(", "O", ".", "x", "==", "0", "AND", "O", ".", "y", "==", "0", ")">>,
      <<"WHERE", "O", ".", "x", "+", "1", "==", "O", ".", "y">>,
      <<"WHERE", "O", ".", "x", "IN", "0", ",", "1">>,
      <<"WHERE", "O", ".", "x", "IN", "O", ".", "y", ",">>,
      <<"WHERE", "O", ".", "x", "==", "0", "AND", "O", ".", "y", "==", "0",
        "OR", "O", ".", "x", "==", "1">>,
      <<"WHERE", "O", ".", "x", "==">> }

QueryTexts ==
    { s \o w \o g \o r :
        s \in SelectTokens, w \in WhereTokens,
        g \in { <<>>, <<"GROUP", "BY", "O", ".", "x">>,
                <<"GROUP", "BY", "O", ".", "x", ",", "O", ".", "y">> },
        r \in { <<>>, <<"RETURNING", "dict">> } }

\* q = parser.parse(text)
ParseText ==
    \E text \in QueryTexts :
        /\ call.op = "none"
        /\ Built([op |-> "parse", tokens |-> text], parse(text))

\* s = str(q)
Render ==
    /\ query # None /\ ret = None
    /\ ret' = [str |-> __str__(query)]
    /\ UNCHANGED <<input, query, result, out, err, call, F, G, queries, results>>

\* parser.parse(s)
Reparse ==
    /\ "str" \in DOMAIN ret /\ "parsed" \notin DOMAIN ret
    /\ ret' = [str |-> ret.str, parsed |-> parse(ret.str)]
    /\ UNCHANGED <<input, query, result, out, err, call, F, G, queries, results>>

NextRoundTrip == ParseText \/ Render \/ Reparse

SpecRoundTrip == Init /\ [][NextRoundTrip]_vars

-----------------------------------------------------------------------------
(* Query reuse: a program that keeps every query it builds and every result
   it gets, derives queries from any of them and calls any of them on one
   input *)

MaxQueries == 3
MaxResults == 2

\* SelectQuery._replace returns SelectQuery(...): the value q in an object of
\* its own, behind the ones there are; self is not assigned to
_replace_updates_self(heap, self, q) == [heap EXCEPT ![self] = q]

_replace_object(heap, self, q) == Append(heap, q)

InitReuse ==
    /\ input \in Inputs
    /\ queries = <<>> /\ results = <<>>
    /\ query = None /\ result = None /\ out = <<>> /\ ret = None
    /\ err = "none" /\ call = [op |-> "none"] /\ F = None /\ G = None

\* what a builder method called on queries[self] leaves: s is what its body
\* evaluates to
Returned(self, s) ==
    /\ Len(queries) < MaxQueries
    /\ ~Raised(s)
    /\ queries' = _replace_object(queries, self, s)
    /\ UNCHANGED <<input, query, result, out, ret, err, call, F, G, results>>

\* q = SELECT(...)
ReuseSelect ==
    \E fields \in { <<o_x>>, <<PyTuple(<<o_y, o_x>>)>> } :
        /\ queries = <<>>
        /\ queries' = <<SELECT(fields)>>
        /\ UNCHANGED <<input, query, result, out, ret, err, call, F, G, results>>

\* queries[self].DISTINCT()
ReuseDistinct == \E self \in DOMAIN queries : Returned(self, DISTINCT(queries[self]))

\* queries[self].WHERE(where)
ReuseWhere ==
    \E self \in DOMAIN queries, where \in { x_eq_y } :
        Returned(self, WHERE(queries[self], where))

\* queries[self].GROUP_BY(*fields)
ReuseGroupBy ==
    \E self \in DOMAIN queries, fields \in { <<o_x>>, <<o_y, o_x>> } :
        Returned(self, GROUP_BY(queries[self], fields))

\* queries[self].RETURNING(dict)
ReuseReturning == \E self \in DOMAIN queries : Returned(self, RETURNING(queries[self], dict))

\* r = queries[self](input): a SelectResult over generators of its own
ReuseCall ==
    \E self \in DOMAIN queries :
        /\ Len(results) < MaxResults
        /\ \E r \in {__call__(queries[self], input)} :
           /\ ~Raised(r)
           /\ results' = Append(results, [of |-> self, frame |-> r, rows |-> <<>>,
                                          stop |-> FALSE])
        /\ UNCHANGED <<input, query, result, out, ret, err, call, F, G, queries>>

\* next(iter(results[j])): the generators of a result run the methods of the
\* query object it was made by
ReuseNext ==
    \E j \in DOMAIN results :
        /\ ~results[j].stop
        /\ \E u \in {_returning_next([results[j].frame EXCEPT !.query = queries[results[j].of]],
                                     input)} :
           results' = [results EXCEPT ![j] =
                          [of |-> @.of, frame |-> u.frame, stop |-> u.stop,
                           rows |-> IF u.stop THEN @.rows ELSE Append(@.rows, u.value)]]
        /\ UNCHANGED <<input, query, result, out, ret, err, call, F, G, queries>>

NextReuse ==
    \/ ReuseSelect
    \/ ReuseDistinct
    \/ ReuseWhere
    \/ ReuseGroupBy
    \/ ReuseReturning
    \/ ReuseCall
    \/ ReuseNext

SpecReuse == InitReuse /\ [][NextReuse]_vars

-----------------------------------------------------------------------------
(* What the claims are stated with *)

\* list() has returned: the generator is exhausted and out holds every row
\* the call delivered
Consumed == result # None /\ "list" \in DOMAIN ret

\* the records of objects the WHERE clause of q is truthy on, in input order
Survivors(q, objects) ==
    SelectSeq(objects, LAMBDA r : q.where = None \/ Call(q.where, r) # 0)

\* (f1(r), ..., fn(r))
Projected(q, r) == [i \in 1..Len(q.fields) |-> Call(q.fields[i], r)]

\* a projected or grouped tuple as the result delivers it: flattened, or
\* handed to the RETURNING type
Shaped(q, t) == _returning(q, _flatten(q, t))

\* one row per surviving record, in input order
RowPerRecord(q, objects) ==
    [i \in 1..Len(Survivors(q, objects)) |->
        Shaped(q, Projected(q, Survivors(q, objects)[i]))]

\* C1 as stated: without GROUP BY the result has one row per record WHERE is
\* truthy on, in input order, made of the projection fields evaluated on it
C1_AsStated ==
    (Consumed /\ result.query.group_by = None)
        => out = RowPerRecord(result.query, input)

\* C1: without GROUP BY and without DISTINCT the result has exactly one row
\* per input record the WHERE clause is truthy on (every record when there is
\* no WHERE), in input order, and the i-th component of a row is the i-th
\* projection field evaluated on that record
C1_RowPerSurvivor ==
    (Consumed /\ result.query.group_by = None /\ ~result.query.distinct)
        => out = RowPerRecord(result.query, input)

C1_Witness ==
    /\ Consumed
    /\ result.query.group_by = None /\ ~result.query.distinct
    /\ result.query.where # None
    /\ Len(result.query.fields) = 2
    /\ Len(out) = 2 /\ Len(input) = 3

\* (g1(r), ..., gk(r))
GroupKey(q, r) == [i \in 1..Len(q.group_by.tuple) |-> Call(q.group_by.tuple[i], r)]

\* the keys of the surviving records
GroupKeys(q, objects) ==
    {GroupKey(q, Survivors(q, objects)[n]) : n \in 1..Len(Survivors(q, objects))}

\* the surviving records of key K, in input order
GroupOf(q, objects, K) ==
    SelectSeq(Survivors(q, objects), LAMBDA r : GroupKey(q, r) = K)

\* the row of the group of key K and records Grp is what C2 says it is
IsGroupRow(q, K, Grp, row) ==
    /\ DOMAIN row = 1..Len(q.fields)
    /\ \A i \in 1..Len(q.fields) :
         LET matches == {idx \in 1..Len(q.group_by.tuple) :
                            _equals(q.fields[i], q.group_by.tuple[idx])}
         IN IF matches # {}
            THEN \A idx \in matches : row[i] = K[idx]
            ELSE row[i] = Call(q.fields[i], Grp)

\* the tuples the grouped result is made of, before flatten and RETURNING
GroupTuples(fr) ==
    [n \in 1..Len(fr.groups.tuple) |-> group_by_fields(fr.query, fr.groups.tuple[n])]

\* the groups of fr are a partition of the surviving records by key, and rows
\* are their rows, one per key, in some order
IsRowPerKey(fr, objects, rows) ==
    LET q == fr.query
        gs == fr.groups.tuple
        keys == GroupKeys(q, objects)
    IN /\ {gs[n].key : n \in 1..Len(gs)} = keys
       /\ Len(gs) = Cardinality(keys)
       /\ \A n \in 1..Len(Survivors(q, objects)) :
            Cardinality({m \in 1..Len(gs) :
                \E j \in 1..Len(gs[m].value) :
                    /\ gs[m].value[j] = Survivors(q, objects)[n]
                    /\ gs[m].key = GroupKey(q, gs[m].value[j])}) = 1
       /\ \A m \in 1..Len(gs) : Len(gs[m].value) = Len(GroupOf(q, objects, gs[m].key))
       /\ Len(rows) = Cardinality(keys)
       /\ \E p \in [1..Len(rows) -> keys] :
            /\ \A a, b \in 1..Len(rows) : p[a] = p[b] => a = b
            /\ \A n \in 1..Len(rows) :
                 \E row \in {GroupTuples(fr)[m] : m \in 1..Len(gs)} :
                    /\ IsGroupRow(q, p[n], GroupOf(q, objects, p[n]), row)
                    /\ rows[n] = Shaped(q, row)

\* C2 as stated: a grouped result has one row per distinct key of the
\* surviving records
C2_AsStated ==
    (Consumed /\ result.query.group_by # None)
        => IsRowPerKey(result, input, out)

\* C2: for a query with GROUP BY and without DISTINCT the surviving records
\* are partitioned by their key tuple, the result has exactly one row per
\* distinct key, and the i-th value of a group's row is K[idx] when
\* projection field i equals the idx-th GROUP BY field, otherwise field i
\* evaluated over exactly the records of the group
C2_RowPerKey ==
    (Consumed /\ result.query.group_by # None /\ ~result.query.distinct)
        => IsRowPerKey(result, input, out)

C2_Witness ==
    /\ Consumed
    /\ result.query.group_by # None /\ ~result.query.distinct
    /\ Len(result.query.group_by.tuple) = 2
    /\ result.query.fields = <<o_x, o_y>>
    /\ Len(out) = 2 /\ Len(input) = 3
    /\ \E n \in 1..3 : input[n].x # input[n].y

\* a < b for key tuples
RECURSIVE LexLess(_, _)
LexLess(a, b) ==
    IF b = <<>> THEN FALSE
    ELSE IF a = <<>> THEN TRUE
    ELSE Head(a) < Head(b) \/ (Head(a) = Head(b) /\ LexLess(Tail(a), Tail(b)))

\* rows is a subsequence of of
IsSubsequence(rows, of) ==
    \E at \in [1..Len(rows) -> 1..Len(of)] :
        /\ \A a, b \in 1..Len(rows) : a < b => at[a] < at[b]
        /\ \A a \in 1..Len(rows) : rows[a] = of[at[a]]

\* C3: once a grouped result has formed its groups, they are in ascending
\* key order, each holds the surviving records of its key in input order,
\* and the rows delivered follow the order of the groups
C3_AscendingStable ==
    (result # None /\ result.groups # None) =>
        LET q == result.query
            gs == result.groups.tuple
            rows == [n \in 1..Len(gs) |-> Shaped(q, GroupTuples(result)[n])]
        IN /\ \A a, b \in 1..Len(gs) : a < b => LexLess(gs[a].key, gs[b].key)
           /\ \A n \in 1..Len(gs) : gs[n].value = GroupOf(q, input, gs[n].key)
           /\ IsSubsequence(out, rows)
           /\ ~q.distinct => out = SubSeq(rows, 1, Len(out))

C3_Witness ==
    /\ Consumed
    /\ result.query.group_by = PyTuple(<<o_x>>)
    /\ result.query.fields = <<o_x, tuple_y>>
    /\ input = <<[x |-> 1, y |-> 1], [x |-> 0, y |-> 1], [x |-> 0, y |-> 0]>>
    /\ Len(out) = 2

\* every projection field of q is scalar
AllScalar(q) == \A i \in 1..Len(q.fields) : _is_mapper(q.fields[i])

\* every projection field of q equals a GROUP BY entry or is an aggregate
AllGroupedOrAggregate(q) ==
    \A i \in 1..Len(q.fields) :
        \/ /\ q.group_by # None
           /\ \E idx \in 1..Len(q.group_by.tuple) :
                 _equals(q.fields[i], q.group_by.tuple[idx])
        \/ _is_aggregator(q.fields[i])

\* C4 as stated: the query the builder holds is well-formed
C4_AsStated ==
    query # None =>
        \/ query.group_by = None /\ AllScalar(query)
        \/ AllGroupedOrAggregate(query)

\* C4: a query the builder accepted that has a GROUP BY has every projection
\* field equal to some GROUP BY entry or classified as aggregate; a query
\* without GROUP BY has only scalar projection fields once it has been
\* called without an error
C4_WellFormed ==
    /\ (query # None /\ query.group_by # None) => AllGroupedOrAggregate(query)
    /\ (result # None /\ result.query.group_by = None) => AllScalar(result.query)

C4_Witness ==
    /\ query # None /\ query.group_by = PyTuple(<<o_x>>)
    /\ query.fields = <<AliasField(o_x, "k"), AliasField(add_sum_1, "total")>>
    /\ err = "none"

\* C5: a query without GROUP BY that has a projection field that is not
\* scalar raises AggregateWithoutGroup when it is called, on every input,
\* the empty one included, and the call leaves no result and no rows
C5_AggregateWithoutGroup ==
    /\ (query # None /\ query.group_by = None /\ ~AllScalar(query)) =>
            \A objects \in Inputs :
                __call__(query, objects) = Raise(AggregateWithoutGroup)
    /\ (call.op = "__call__" /\ query.group_by = None /\ ~AllScalar(query)) =>
            (err = AggregateWithoutGroup /\ result = None /\ out = <<>>)

C5_Witness ==
    /\ call = [op |-> "__call__", objects |-> <<>>]
    /\ err = AggregateWithoutGroup
    /\ query # None /\ query.group_by = None
    /\ query.fields = <<add_sum_x>>
    /\ result = None /\ out = <<>>

\* the tuples the result is made of, before flatten, DISTINCT and RETURNING
Tuples(fr, objects) ==
    IF fr.query.group_by = None
    THEN [n \in 1..Len(Survivors(fr.query, objects)) |->
              Projected(fr.query, Survivors(fr.query, objects)[n])]
    ELSE GroupTuples(fr)

\* the first n rows with every row that occurred before left out
RECURSIVE FirstOccurrences(_, _)
FirstOccurrences(rows, n) ==
    IF n = 0 THEN <<>>
    ELSE IF \E j \in 1..(n - 1) : rows[j] = rows[n]
         THEN FirstOccurrences(rows, n - 1)
         ELSE Append(FirstOccurrences(rows, n - 1), rows[n])

\* C6: with DISTINCT the rows delivered are, before the RETURNING type is
\* applied, the rows DISTINCT received with every row that occurred before
\* left out: each row value once, at its first occurrence, none lost
C6_DistinctFirstOccurrences ==
    (Consumed /\ result.query.distinct) =>
        LET q == result.query
            received == [n \in 1..Len(Tuples(result, input)) |->
                            _flatten(q, Tuples(result, input)[n])]
            kept == FirstOccurrences(received, Len(received))
        IN /\ \A a, b \in 1..Len(kept) : kept[a] = kept[b] => a = b
           /\ {kept[n] : n \in 1..Len(kept)} = {received[n] : n \in 1..Len(received)}
           /\ result.seen = {kept[n] : n \in 1..Len(kept)}
           /\ out = [n \in 1..Len(kept) |-> _returning(q, kept[n])]

C6_Witness ==
    /\ Consumed /\ result.query.distinct
    /\ result.query.fields = <<o_x, o_y>>
    /\ result.query.group_by = None /\ result.query.return_type = None
    /\ Len(input) = 3 /\ input[1] = input[3] /\ input[1] # input[2]
    /\ Len(out) = 2

\* the tuples the rows of a result with a RETURNING type are made of
Delivered(fr, objects) ==
    IF fr.query.distinct
    THEN FirstOccurrences(Tuples(fr, objects), Len(Tuples(fr, objects)))
    ELSE Tuples(fr, objects)

\* RETURNING sets return_type and forces flatten to false
ReturningSets ==
    call.op = "RETURNING" =>
        (err = "none" /\ query.return_type = call.return_type /\ ~query.flatten)

\* C7 as stated: every row is the RETURNING type applied to a keyed record
\* with one entry per projection field, the i-th display name mapped to the
\* i-th value
C7_AsStated ==
    (Consumed /\ result.query.return_type # None) =>
        LET q == result.query
            rows == Delivered(result, input)
        IN /\ ~q.flatten
           /\ Len(out) = Len(rows)
           /\ \A n \in 1..Len(out) :
                /\ out[n].type = q.return_type.name
                /\ Cardinality(DOMAIN out[n].kw) = Len(q.fields)
                /\ \A i \in 1..Len(q.fields) :
                     out[n].kw[_name(q.fields[i])] = rows[n][i]

\* C7: RETURNING sets return_type and forces flatten to false, and every row
\* is the RETURNING type applied to a keyed record with one entry per
\* distinct display name of the projection, mapped to the value of the last
\* projection field of that name
C7_KeyedRecord ==
    /\ ReturningSets
    /\ (result # None /\ result.query.return_type # None) => ~result.query.flatten
    /\ (Consumed /\ result.query.return_type # None) =>
            LET q == result.query
                rows == Delivered(result, input)
            IN /\ Len(out) = Len(rows)
               /\ \A n \in 1..Len(out) :
                    /\ out[n].type = q.return_type.name
                    /\ DOMAIN out[n].kw = {_name(q.fields[i]) : i \in 1..Len(q.fields)}
                    /\ \A i \in 1..Len(q.fields) :
                         (\A j \in (i + 1)..Len(q.fields) :
                              _name(q.fields[j]) # _name(q.fields[i]))
                            => out[n].kw[_name(q.fields[i])] = rows[n][i]

C7_Witness ==
    /\ Consumed /\ result.query.return_type = dict
    /\ result.query.fields = <<AliasField(o_x, "a"), AliasField(o_y, "a")>>
    /\ \E n \in 1..Len(input) : input[n].x # input[n].y
    /\ Len(out) = 2

\* the table of SELECT: what it makes of its arguments
SelectTable(fields, q) ==
    IF Len(fields) = 0 THEN q.fields = <<IdentityField>> /\ q.flatten
    ELSE IF Len(fields) = 1 /\ IsSequence(fields[1])
         THEN q.fields = fields[1].tuple /\ ~q.flatten
    ELSE IF Len(fields) = 1 THEN q.fields = fields /\ q.flatten
    ELSE q.fields = fields /\ ~q.flatten

\* C8: SELECT decides flatten from the shape of its arguments; a text with
\* one projection item and no trailing comma is flattened and every other
\* text is not; a flattened result delivers bare values, and one that is
\* not delivers rows of as many elements as there are projection fields
C8_Flatten ==
    /\ call.op = "SELECT" => (err = "none" /\ SelectTable(call.fields, query))
    /\ (call.op = "query" /\ err = "none") =>
            /\ query.fields = call.text.select.items
            /\ query.flatten =
                  (/\ Len(call.text.select.items) = 1 /\ ~call.text.select.comma
                   /\ call.text.returning = None)
    /\ query # None => (query.flatten => Len(query.fields) = 1)
    /\ (result # None /\ result.query.return_type = None) =>
            \A n \in 1..Len(out) :
                IF result.query.flatten
                THEN DOMAIN out[n] = {"value"}
                ELSE /\ DOMAIN out[n] = {"tuple"}
                     /\ Len(out[n].tuple) = Len(result.query.fields)

C8_Witness ==
    /\ Consumed
    /\ result.query.fields = <<o_x>> /\ ~result.query.flatten
    /\ result.query.return_type = None
    /\ out = <<[tuple |-> <<0>>], [tuple |-> <<1>>]>>

\* nothing of the result has been consumed
Fresh == result # None /\ result = SelectResult(result.query) /\ out = <<>>

\* C9: one() on a result nothing of which has been consumed returns the sole
\* row when there is exactly one, raises EmptyResult when there is none and
\* AmbiguousResult when there are two or more
C9_One ==
    [][(Fresh /\ One) =>
        LET rows == list(result, input).rows
        IN /\ Len(rows) = 1 => (err' = "none" /\ ret' = [one |-> rows[1]])
           /\ Len(rows) = 0 => (err' = EmptyResult /\ ret' = None)
           /\ Len(rows) >= 2 => (err' = AmbiguousResult /\ ret' = None)]_vars

C9_Witness ==
    /\ result # None /\ "one" \in DOMAIN ret
    /\ Len(input) = 3 /\ result.query.where # None
    /\ out = <<ret.one>>

\* C10: F = F0.AS(n) classifies as scalar iff F0 does and as aggregate iff F0
\* does, and for every field G both _equals(F, G) and _equals(G, F) are what
\* _equals(F0, G) is; F0 may be an alias itself
C10_AliasTransparent ==
    (F # None /\ G # None /\ F.t = "AliasField") =>
        /\ _is_mapper(F) = _is_mapper(F.field)
        /\ _is_aggregator(F) = _is_aggregator(F.field)
        /\ _equals(F, G) = _equals(F.field, G)
        /\ _equals(G, F) = _equals(F.field, G)

C10_Witness ==
    /\ F = AliasField(AliasField(add_sum_1, "a"), "b")
    /\ G = AliasField(add_sum_1, "b")

\* the records of objects that satisfy at least one of o.x and o.y
EitherOperand(objects) == SelectSeq(objects, LAMBDA r : r.x # 0 \/ r.y # 0)

\* C11: WHERE o.x OR o.y retains exactly the records on which o.x is truthy
\* or o.y is truthy
C11_AsStated ==
    (/\ Consumed /\ result.query.where = x_or_y
     /\ result.query.group_by = None /\ ~result.query.distinct)
        => Len(out) = Len(EitherOperand(input))

\* C12: the text "L MATCHES R" in a WHERE clause compiles to a query whose
\* where clause is the operator node MATCHES over L and R
C12_AsStated ==
    (/\ call.op = "query" /\ err = "none"
     /\ call.text.where # None /\ call.text.where.op = "MATCHES")
        => query.where = OperatorField("matches",
                                       <<call.text.where.left, call.text.where.right>>,
                                       "MATCHES")


\* C13: round trip.  Whenever a text the parser accepted has been rendered
\* and the rendered text parsed, that second parse is accepted too and gives
\* a query equal to the first in projection, flatten, distinct, where,
\* group_by and return_type.
C13_AsStated ==
    "parsed" \in DOMAIN ret => ~Raised(ret.parsed) /\ ret.parsed = query


\* The rows results[j] has delivered are the first rows of what the query
\* object it came from gives on the input when run on its own from the
\* start, and all of them once the result is exhausted.
SameRows(r, rows) ==
    /\ Len(r.rows) <= Len(rows)
    /\ r.rows = SubSeq(rows, 1, Len(r.rows))
    /\ r.stop => r.rows = rows

\* every query object there is stays, with the fields it has
QueriesKept == \A i \in DOMAIN queries : i \in DOMAIN queries' /\ queries'[i] = queries[i]

\* C14: a query is never changed.  No step (DISTINCT, WHERE, GROUP_BY and
\* RETURNING called on any query, calling a query, taking rows from a
\* result) changes a field of a query there is: the builder methods give a
\* new query and leave their receiver as it was.  And every call of a query
\* on the same input gives a result that delivers the same rows, however
\* the rows of the other results, the same query's included, are taken
\* before, between or after its own.
C14_Immutable ==
    /\ [][QueriesKept]_vars
    /\ [](\A j \in DOMAIN results :
            SameRows(results[j],
                     list(__call__(queries[results[j].of], input), input).rows))

\* the same DISTINCT query called twice on an input with duplicates, both
\* results exhausted, after another query was derived
C14_Witness ==
    /\ Len(queries) = MaxQueries
    /\ Len(results) = 2
    /\ results[1].of = results[2].of
    /\ results[1].of < Len(queries)
    /\ queries[results[1].of].distinct
    /\ results[1].stop /\ results[2].stop
    /\ results[2].rows # <<>>
    /\ Len(results[2].rows) < Len(input)
    /\ queries[results[1].of].where = None


\* a next() of the result has found its generator exhausted
Ended ==
    \/ err \in {StopIteration, EmptyResult}
    \/ "list" \in DOMAIN ret
    \/ "one" \in DOMAIN ret

\* how much of objects has to be read for the query to give n rows
MinPrefix(q, objects, n) ==
    CHOOSE p \in 0..Len(objects) :
        /\ Len(list(__call__(q, SubSeq(objects, 1, p)), SubSeq(objects, 1, p)).rows) >= n
        /\ \A p2 \in 0..(p - 1) :
              Len(list(__call__(q, SubSeq(objects, 1, p2)), SubSeq(objects, 1, p2)).rows) < n

\* the rows delivered so far took no more of the input than they needed
ReadsWhatItNeeds == ~Ended => result.pos = MinPrefix(result.query, input, Len(out))

RECURSIVE Held(_)
\* the records the generator of _group holds on to
Held(groups) == IF groups = <<>> THEN 0 ELSE Len(Head(groups).value) + Held(Tail(groups))

\* C15: the pipeline is lazy.  Without GROUP BY, when n rows have been
\* delivered and no more were asked for, the input has been read up to the
\* record that gave the n-th row and no further.  With GROUP BY, once rows
\* are being produced the generator holds the records of one group, not
\* every surviving record of the input.
C15_AsStated ==
    result # None =>
        IF result.query.group_by = None THEN ReadsWhatItNeeds
        ELSE result.groups # None =>
                \A i \in 1..Len(result.groups.tuple) :
                    Held(result.groups.tuple) <= Len(result.groups.tuple[i].value)



\* every row of the result, as a generator of its own would deliver them
AllRows == list(__call__(result.query, input), input).rows

\* C16: a result is single-pass.  Whatever sequence of next(), list() and
\* one() is applied to it, the rows delivered so far are the first rows of
\* the result, each once and in order; one() takes at most two rows; and
\* right after a list(), another list() returns the empty list and one()
\* raises EmptyResult, neither delivering anything.
C16_SinglePass ==
    /\ [](result # None =>
            /\ Len(out) <= Len(AllRows)
            /\ out = SubSeq(AllRows, 1, Len(out)))
    /\ [][/\ One => Len(out') <= Len(out) + 2
          /\ ("list" \in DOMAIN ret /\ List) => (ret' = [list |-> <<>>] /\ out' = out)
          /\ ("list" \in DOMAIN ret /\ One) =>
                (err' = EmptyResult /\ ret' = None /\ out' = out)]_vars

\* a list() that found nothing left of a result that has delivered two rows
\* or more
C16_Witness ==
    /\ result # None
    /\ "list" \in DOMAIN ret
    /\ ret.list = <<>>
    /\ Len(out) >= 2
    /\ ~result.query.distinct


\* what calling q on objects and taking every row gives, or the exception
\* the call raises
RowsOrRaise(r, objects) == IF Raised(r) THEN r ELSE [rows |-> list(r, objects).rows]

\* C17: a later WHERE or GROUP_BY replaces the earlier one.  WHERE(Q) called
\* on a query that has a where clause gives the query WHERE(Q) gives on the
\* same query without one, and so the same rows on every input; GROUP_BY
\* called on a query that has a group_by gives what it gives on the same
\* query without one.
C17_Replaces ==
    /\ (call.op = "WHERE" /\ err = "none" /\ call.self.where # None) =>
          /\ query = WHERE([call.self EXCEPT !.where = None], call.where)
          /\ \A objects \in Inputs :
                RowsOrRaise(__call__(query, objects), objects)
                  = RowsOrRaise(__call__(WHERE([call.self EXCEPT !.where = None],
                                               call.where), objects), objects)
    /\ (call.op = "GROUP_BY" /\ err = "none" /\ call.self.group_by # None) =>
          query = GROUP_BY([call.self EXCEPT !.group_by = None], call.by)

\* WHERE(Q) has answered on a query whose where clause was another, P
C17_Witness ==
    /\ call.op = "WHERE" /\ err = "none"
    /\ call.self.where # None
    /\ call.self.where # call.where
    /\ query.where = call.where


\* C18: a grouped query gives no row when there is no record to group.  When
\* the query called has a group_by (GROUP_BY() without keys and a constant
\* key included) and the input is empty or no record of it passes the where
\* clause, no row is ever delivered, _group makes no group (so no aggregate
\* is applied to an empty one), list() returns the empty list and one()
\* raises EmptyResult.
C18_NoGroupNoRow ==
    (/\ result # None
     /\ result.query.group_by # None
     /\ Survivors(result.query, input) = <<>>) =>
        /\ out = <<>>
        /\ result.groups \in {None, PyTuple(<<>>)}
        /\ ret \in {None, [list |-> <<>>]}
        /\ err \in {"none", StopIteration, EmptyResult}
        /\ one(__call__(result.query, input), input).outcome = Raise(EmptyResult)

\* one() has raised EmptyResult on a query grouped by no key or by a
\* constant, called on records none of which passes its where clause
C18_Witness ==
    /\ result # None
    /\ result.query.group_by \in {PyTuple(<<>>), PyTuple(<<ConstantField(1)>>)}
    /\ result.query.where # None
    /\ input # <<>>
    /\ Survivors(result.query, input) = <<>>
    /\ err = EmptyResult
    /\ result.groups = PyTuple(<<>>)

====
